---- MODULE Spec2Model ----
(***************************************************************************)
(* Model of linkcheck.checker.consumer.Consumer: the URL consumer that     *)
(* serialises the checker threads behind one global lock, fans results     *)
(* out to the loggers and shuts the crawl down in abort().                 *)
(*                                                                         *)
(* Threads are the driver (thread 0) and the checker threads started by    *)
(* check_url.  Every Consumer method is a sequence of steps: the call, the *)
(* lock acquisition of the synchronized decorator, the statements of the   *)
(* body, and the return (which releases the lock).                         *)
(***************************************************************************)
EXTENDS Integers, Sequences, FiniteSets, TLC

\* ------------------------------------------------------------- bounds
NWorkers == 2
NItems == 3
NFile == 1
NAbortWorkers == 1
MaxCancel == 2

\* ------------------------------------------------- program constants
\* "if self.num_waited > 30" in Consumer._abort
WAIT_LIMIT == 30

\* ------------------------------------------------------------ domains
Driver == 0
Workers == 1..NWorkers
Threads == {Driver} \cup Workers
NoThread == -1
Items == 1..NItems
NoItem == 0
\* sink 0 is config['logger'], sinks 1..NFile are config['fileoutput'] in order
Sinks == 0..NFile

\* The items the crawl discovers, in the order the driver appends them.
\* Item 2 has the identity (cache key) of item 1; all others differ.
Ident(i) == IF i = 2 THEN 1 ELSE i
\* url_data.valid, url_data.warnings (the tags), url_data.caching and
\* url_data.cached of the items
Valid(i) == i # 3
Warnings(i) ==
    CASE i = 2 -> <<"slow">>
      [] i = 3 -> <<"anchor", "slow">>
      [] i = 4 -> <<"anchor">>
      [] OTHER -> << >>
Caching(i) == i % 2 = 1
Cached(i) == i % 3 = 0

VARIABLES
    lock,         \* _lock: the thread holding it, or NoThread
    pc,           \* position of every thread
    op,           \* the Consumer method a thread is in (or has just left)
    arg,          \* url_data argument of that method
    out,          \* how the method just left ended: "none", "ret", "raise"
    k,            \* loop index over the sinks in a fan-out loop
    tmp,          \* the value of self._number a thread has loaded
    number,       \* Consumer._number
    config,       \* Consumer._config
    incoming,     \* Cache: queue of items waiting to be checked
    in_progress,  \* Cache: items being checked
    checked,      \* Cache: identities with a cached result
    active,       \* Threader: the running checker threads
    sinks,        \* the event stream each logger has received
    ret,          \* boolean returned by the driver's last query method
    num,          \* "num = self.active_threads()" in _abort
    num_waited,   \* Consumer.num_waited (-1: not set yet)
    hist          \* bookkeeping of the calls made, for stating properties

vars == <<lock, pc, op, arg, out, k, tmp, number, config, incoming, in_progress,
          checked, active, sinks, ret, num, num_waited, hist>>

\* ----------------------------------------------------- synchronisation
\* The Cache methods called through Consumer.__getattr__.
ProxyMethods == {"incoming_get", "in_progress_remove"}

\* The methods of Consumer carrying @linkcheck.decorators.synchronized(_lock),
\* and the Cache methods wrapped by __getattr__.
SyncMethods ==
    {"config", "config_append", "append_url", "checked", "interrupted",
     "finished", "finish", "no_more_threads", "print_status",
     "start_log_output", "log_url", "end_log_output", "active_threads",
     "get_country_name"} \cup ProxyMethods

\* (__getattr__ returning the Cache method as it is)
SynchronizedButProxy(o) == o \in SyncMethods \ ProxyMethods

\* (checked() left without the decorator)
SynchronizedButChecked(o) == o \in SyncMethods \ {"checked"}

Synchronized(o) == o \in SyncMethods

\* lock.acquire() of the decorator: blocks while any thread (this one
\* included: the lock is not reentrant) holds the lock.
CanEnter(t) == Synchronized(op[t]) => lock = NoThread
Entered(t) == IF Synchronized(op[t]) THEN t ELSE lock
\* lock.release() in the decorator's finally clause
Released(t) == IF Synchronized(op[t]) /\ lock = t THEN NoThread ELSE lock

\* (checked() putting the item in the cache before logging it)
CacheThenLog == <<"checked_cache", "log_load">>

\* Consumer.checked: self._log_url(url_data), then the cache update
CheckedOrder == <<"log_load", "checked_cache">>
\* what follows statement l of checked()
CheckedNext(l) == IF CheckedOrder[1] = l THEN CheckedOrder[2] ELSE "return"

\* first statement of each method body
Body(o) ==
    CASE o = "append_url" -> "append_add"
      [] o = "checked" -> CheckedOrder[1]
      [] o = "log_url" -> "log_load"
      [] o = "interrupted" -> "int_remove"
      [] o = "finished" -> "fin_pool"
      [] o = "print_status" -> "ps_active"
      [] o = "start_log_output" -> "out_sink"
      [] o = "end_log_output" -> "out_sink"
      [] o = "incoming_get" -> "get_pop"
      [] o = "in_progress_remove" -> "proxy_remove"
      [] OTHER -> "simple"

\* --------------------------------------------------------------- Cache
\* The Cache is a collaborator outside consumer.py; its operations are
\* modelled from their contract.
RangeOf(q) == {q[n] : n \in 1..Len(q)}
Seen(i) ==
    \/ \E j \in RangeOf(incoming) \cup in_progress : Ident(j) = Ident(i)
    \/ Ident(i) \in checked
\* incoming_add(item) -> bool: true when the item is newly queued
IncomingAdd(i) == ~Seen(i)
IncomingLen == Len(incoming)

\* ------------------------------------------------------------ Threader
ThreaderFinished == active = {}
ThreaderActive == Cardinality(active)

\* ------------------------------------------------------------- logging
StartEv == [type |-> "start", item |-> NoItem, do_print |-> FALSE]
EndEv == [type |-> "end", item |-> NoItem, do_print |-> FALSE]
LogEv(i, p) == [type |-> "log", item |-> i, do_print |-> p]

\* "for tag, content in url_data.warnings: if tag not in ignorewarnings"
HasWarnings(i) ==
    \E n \in 1..Len(Warnings(i)) : Warnings(i)[n] \notin config.ignorewarnings
\* (the "warnings" option not consulted)
DoPrintAnyWarning(i) == config.verbose \/ ~Valid(i) \/ HasWarnings(i)

\* "do_print = self._config["verbose"] or not url_data.valid or
\* (has_warnings and self._config["warnings"])"
DoPrint(i) ==
    config.verbose \/ ~Valid(i) \/ (HasWarnings(i) /\ config.warnings)

ConfigKeys ==
    {"threads", "logger", "fileoutput", "verbose", "warnings",
     "ignorewarnings", "geoip"}

\* -------------------------------------------------------- initial state
Hist0 ==
    [appended |-> 0, nChecked |-> 0, nDup |-> 0, nLogUrl |-> 0, nLog |-> 0,
     logs |-> [t \in Threads |-> 0], rejected |-> {}, dispatched |-> {},
     loops |-> 0, warns |-> 0, finishes |-> 0, sleeps |-> 0, fatals |-> 0,
     cancels |-> 0, ends |-> 0, calls |-> [t \in Threads |-> << >>],
     again |-> [t \in Threads |-> << >>], acq |-> << >>]

Config0 ==
    [verbose |-> FALSE, warnings |-> TRUE, ignorewarnings |-> {"anchor"}]

\* Consumer.__init__ has set its fields and is about to call
\* self.start_log_output().
Init ==
    /\ lock = NoThread
    /\ pc = [t \in Threads |-> IF t = Driver THEN "acquire" ELSE "off"]
    /\ op = [t \in Threads |-> IF t = Driver THEN "start_log_output" ELSE "none"]
    /\ arg = [t \in Threads |-> NoItem]
    /\ out = [t \in Threads |-> "none"]
    /\ k = [t \in Threads |-> 0]
    /\ tmp = [t \in Threads |-> 0]
    /\ number = 0
    /\ config = Config0
    /\ incoming = << >>
    /\ in_progress = {}
    /\ checked = {}
    /\ active = {}
    /\ sinks = [s \in Sinks |-> << >>]
    /\ ret = FALSE
    /\ num = 0
    /\ num_waited = -1
    /\ hist = Hist0

\* ------------------------------------------------- calling and leaving
\* thread t calls method o with url_data i
Call(t, o, i) ==
    /\ pc' = [pc EXCEPT ![t] = "acquire"]
    /\ op' = [op EXCEPT ![t] = o]
    /\ arg' = [arg EXCEPT ![t] = i]
    /\ out' = [out EXCEPT ![t] = "none"]

\* the call thread t is making is one that logs its item
LoggingCall(t) ==
    \/ op[t] \in {"checked", "log_url"}
    \/ op[t] = "append_url" /\ ~IncomingAdd(arg[t])

\* the decorator's lock.acquire(), then the first statement of the body
\* (hist.acq: the items of the logging calls in the order of their entry)
Enter(t) ==
    /\ pc[t] = "acquire"
    /\ CanEnter(t)
    /\ lock' = Entered(t)
    /\ pc' = [pc EXCEPT ![t] = Body(op[t])]
    /\ hist' = IF LoggingCall(t) THEN [hist EXCEPT !.acq = Append(@, arg[t])]
               ELSE hist
    /\ UNCHANGED <<op, arg, out, k, tmp, number, config, incoming,
                 in_progress, checked, active, sinks, ret, num,
                 num_waited>>

\* the method returns (o = "ret") or raises (o = "raise"); the decorator's
\* finally clause releases the lock
Leave(t, o) ==
    /\ lock' = Released(t)
    /\ pc' = [pc EXCEPT ![t] = "ret"]
    /\ out' = [out EXCEPT ![t] = o]
    /\ k' = [k EXCEPT ![t] = 0]

\* after a statement: go on with statement l, or leave when the statement
\* was the last one or raised
Continue(t, l, o) ==
    IF l = "return" \/ o = "raise"
    THEN Leave(t, o)
    ELSE /\ pc' = [pc EXCEPT ![t] = l]
         /\ k' = [k EXCEPT ![t] = 0]
         /\ UNCHANGED <<lock, out>>

\* ------------------------------------------------------- method bodies
\* Consumer.append_url: "if not self._cache.incoming_add(url_data)"
\* (the condition without its "not": every appended item is logged)
AppendLogsAlways(added) == TRUE

\* whether append_url logs the item, given the result of incoming_add
AppendLogs(added) == ~added

\* (append_url logging through the synchronized log_url)
AppendAddViaLogUrl(t) ==
    /\ pc[t] = "append_add"
    /\ LET added == IncomingAdd(arg[t]) IN
          /\ incoming' = IF added THEN Append(incoming, arg[t]) ELSE incoming
          /\ hist' = IF added THEN hist
                     ELSE [hist EXCEPT !.nDup = @ + 1,
                                       !.rejected = @ \cup {arg[t]}]
          /\ IF AppendLogs(added)
             THEN /\ Call(t, "log_url", arg[t])
                  /\ UNCHANGED <<lock, k>>
             ELSE /\ Continue(t, "return", "ret")
                  /\ UNCHANGED <<op, arg>>
    /\ UNCHANGED <<tmp, number, config, in_progress, checked, active,
                 sinks, ret, num, num_waited>>

AppendAdd(t) ==
    /\ pc[t] = "append_add"
    /\ LET added == IncomingAdd(arg[t]) IN
          /\ incoming' = IF added THEN Append(incoming, arg[t]) ELSE incoming
          /\ hist' = IF added THEN hist
                     ELSE [hist EXCEPT !.nDup = @ + 1,
                                       !.rejected = @ \cup {arg[t]}]
          /\ Continue(t, IF AppendLogs(added) THEN "log_load" ELSE "return", "ret")
    /\ UNCHANGED <<op, arg, tmp, number, config, in_progress, checked,
                 active, sinks, ret, num, num_waited>>

\* Consumer._log_url: "self._number += 1" loads the counter ...
LogLoad(t) ==
    /\ pc[t] = "log_load"
    /\ tmp' = [tmp EXCEPT ![t] = number]
    /\ pc' = [pc EXCEPT ![t] = "log_store"]
    /\ UNCHANGED <<lock, op, arg, out, k, number, config, incoming,
                 in_progress, checked, active, sinks, ret, num,
                 num_waited, hist>>

\* ... and stores the incremented value
LogStore(t) ==
    /\ pc[t] = "log_store"
    /\ number' = tmp[t] + 1
    /\ tmp' = [tmp EXCEPT ![t] = 0]
    /\ pc' = [pc EXCEPT ![t] = "log_sink"]
    /\ hist' = [hist EXCEPT !.nLog = @ + 1, !.logs[t] = @ + 1]
    /\ UNCHANGED <<lock, op, arg, out, k, config, incoming, in_progress,
                 checked, active, sinks, ret, num, num_waited>>

\* where a method continues after its call of _log_url
AfterLog(o) == IF o = "checked" THEN CheckedNext("log_load") ELSE "return"

\* (the file outputs receive only the items with do_print set)
LogSinkPrinted(t) ==
    /\ pc[t] = "log_sink"
    /\ sinks' = [sinks EXCEPT ![k[t]] =
                    IF k[t] = 0 \/ DoPrint(arg[t])
                    THEN Append(@, LogEv(arg[t], DoPrint(arg[t]))) ELSE @]
    /\ IF k[t] < NFile
       THEN /\ k' = [k EXCEPT ![t] = @ + 1]
            /\ UNCHANGED <<pc, lock, out>>
       ELSE Continue(t, AfterLog(op[t]), "ret")
    /\ UNCHANGED <<op, arg, tmp, number, config, incoming, in_progress,
                 checked, active, ret, num, num_waited, hist>>

\* Consumer._log_url: log_filter_url(url_data, do_print) on the primary
\* logger, then on each file output in list order
LogSink(t) ==
    /\ pc[t] = "log_sink"
    /\ sinks' = [sinks EXCEPT ![k[t]] = Append(@, LogEv(arg[t], DoPrint(arg[t])))]
    /\ IF k[t] < NFile
       THEN /\ k' = [k EXCEPT ![t] = @ + 1]
            /\ UNCHANGED <<pc, lock, out>>
       ELSE Continue(t, AfterLog(op[t]), "ret")
    /\ UNCHANGED <<op, arg, tmp, number, config, incoming, in_progress,
                 checked, active, ret, num, num_waited, hist>>

\* Cache.checked_add(url_data)
CheckedAdd(t, l) ==
    /\ checked' = checked \cup {Ident(arg[t])}
    /\ in_progress' = in_progress \ {arg[t]}
    /\ hist' = [hist EXCEPT !.calls[t] = Append(@, "checked_add")]
    /\ Continue(t, l, "ret")

\* Cache.in_progress_remove(url_data, ignore_missing): a missing entry is
\* an error unless ignore_missing is set
InProgressRemove(t, ignore_missing, l) ==
    /\ checked' = checked
    /\ in_progress' = in_progress \ {arg[t]}
    /\ hist' = [hist EXCEPT !.calls[t] =
                  Append(@, IF ignore_missing THEN "in_progress_remove_ignore_missing"
                            ELSE "in_progress_remove")]
    /\ Continue(t, l, IF arg[t] \in in_progress \/ ignore_missing
                      THEN "ret" ELSE "raise")

\* (the test without "and not url_data.cached")
CheckedCacheUncached(t) ==
    /\ pc[t] = "checked_cache"
    /\ IF Caching(arg[t])
       THEN CheckedAdd(t, CheckedNext("checked_cache"))
       ELSE InProgressRemove(t, FALSE, CheckedNext("checked_cache"))
    /\ UNCHANGED <<op, arg, tmp, number, config, incoming, active,
                 sinks, ret, num, num_waited>>

\* (the removal called with ignore_missing=True)
CheckedCacheTolerant(t) ==
    /\ pc[t] = "checked_cache"
    /\ IF Caching(arg[t]) /\ ~Cached(arg[t])
       THEN CheckedAdd(t, CheckedNext("checked_cache"))
       ELSE InProgressRemove(t, TRUE, CheckedNext("checked_cache"))
    /\ UNCHANGED <<op, arg, tmp, number, config, incoming, active,
                 sinks, ret, num, num_waited>>

\* Consumer.checked, after the log: "if url_data.caching and not
\* url_data.cached: checked_add ... else: in_progress_remove"
CheckedCache(t) ==
    /\ pc[t] = "checked_cache"
    /\ IF Caching(arg[t]) /\ ~Cached(arg[t])
       THEN CheckedAdd(t, CheckedNext("checked_cache"))
       ELSE InProgressRemove(t, FALSE, CheckedNext("checked_cache"))
    /\ UNCHANGED <<op, arg, tmp, number, config, incoming, active,
                 sinks, ret, num, num_waited>>

\* (the removal called without ignore_missing)
IntRemoveStrict(t) ==
    /\ pc[t] = "int_remove"
    /\ InProgressRemove(t, FALSE, "return")
    /\ UNCHANGED <<op, arg, tmp, number, config, incoming, active,
                 sinks, ret, num, num_waited>>

\* Consumer.interrupted: in_progress_remove(url_data, ignore_missing=True)
IntRemove(t) ==
    /\ pc[t] = "int_remove"
    /\ InProgressRemove(t, TRUE, "return")
    /\ UNCHANGED <<op, arg, tmp, number, config, incoming, active,
                 sinks, ret, num, num_waited>>

\* Consumer.finished: "self._threader.finished() and ..."
\* ("or" in place of "and")
FinPoolOr(t) ==
    /\ pc[t] = "fin_pool"
    /\ IF ThreaderFinished
       THEN /\ ret' = TRUE
            /\ Leave(t, "ret")
       ELSE /\ pc' = [pc EXCEPT ![t] = "fin_len"]
            /\ UNCHANGED <<lock, out, k, ret>>
    /\ UNCHANGED <<op, arg, tmp, number, config, incoming, in_progress,
                 checked, active, sinks, num, num_waited, hist>>

FinPool(t) ==
    /\ pc[t] = "fin_pool"
    /\ IF ThreaderFinished
       THEN /\ pc' = [pc EXCEPT ![t] = "fin_len"]
            /\ UNCHANGED <<lock, out, k, ret>>
       ELSE /\ ret' = FALSE
            /\ Leave(t, "ret")
    /\ UNCHANGED <<op, arg, tmp, number, config, incoming, in_progress,
                 checked, active, sinks, num, num_waited, hist>>

\* Consumer.finished: "... self._cache.incoming_len() == 0"
FinLen(t) ==
    /\ pc[t] = "fin_len"
    /\ ret' = (IncomingLen = 0)
    /\ Leave(t, "ret")
    /\ UNCHANGED <<op, arg, tmp, number, config, incoming, in_progress,
                 checked, active, sinks, num, num_waited, hist>>

\* Consumer.print_status: print_active(self._threader.active_threads()),
\* print_links(self._number)
PsActive(t) ==
    /\ pc[t] = "ps_active"
    /\ pc' = [pc EXCEPT ![t] = "ps_len"]
    /\ UNCHANGED <<lock, op, arg, out, k, tmp, number, config, incoming,
                 in_progress, checked, active, sinks, ret, num,
                 num_waited, hist>>

\* Consumer.print_status: print_tocheck(self._cache.incoming_len())
PsLen(t) ==
    /\ pc[t] = "ps_len"
    /\ Leave(t, "ret")
    /\ UNCHANGED <<op, arg, tmp, number, config, incoming, in_progress,
                 checked, active, sinks, ret, num, num_waited,
                 hist>>

\* Consumer.start_log_output / end_log_output: the call on the primary
\* logger, then on each file output
OutSink(t) ==
    /\ pc[t] = "out_sink"
    /\ sinks' = [sinks EXCEPT ![k[t]] =
                    Append(@, IF op[t] = "start_log_output" THEN StartEv ELSE EndEv)]
    /\ IF k[t] < NFile
       THEN /\ k' = [k EXCEPT ![t] = @ + 1]
            /\ UNCHANGED <<pc, lock, out>>
       ELSE Leave(t, "ret")
    /\ UNCHANGED <<op, arg, tmp, number, config, incoming, in_progress,
                 checked, active, ret, num, num_waited, hist>>

\* Cache.incoming_get through the synchronized proxy of __getattr__: the
\* head of the incoming queue moves to the in-progress set
GetPop(t) ==
    /\ pc[t] = "get_pop"
    /\ IF incoming # << >>
       THEN /\ arg' = [arg EXCEPT ![t] = Head(incoming)]
            /\ incoming' = Tail(incoming)
            /\ in_progress' = in_progress \cup {Head(incoming)}
       ELSE UNCHANGED <<arg, incoming, in_progress>>
    /\ Leave(t, "ret")
    /\ UNCHANGED <<op, tmp, number, config, checked, active, sinks, ret,
                 num, num_waited, hist>>

\* Cache.in_progress_remove(url_data) through the synchronized proxy of
\* __getattr__
ProxyRemove(t) ==
    /\ pc[t] = "proxy_remove"
    /\ InProgressRemove(t, FALSE, "return")
    /\ UNCHANGED <<op, arg, tmp, number, config, incoming, active,
                 sinks, ret, num, num_waited>>

\* Consumer.config: "return self._config[key]"
ConfigBody(t) ==
    /\ pc[t] = "simple" /\ op[t] = "config"
    /\ \E key \in {"verbose", "nokey"} :
          Leave(t, IF key \in ConfigKeys THEN "ret" ELSE "raise")
    /\ UNCHANGED <<op, arg, tmp, number, config, incoming, in_progress,
                 checked, active, sinks, ret, num, num_waited,
                 hist>>

\* Consumer.config_append: "self._config[key].append(val)"; the tag val is
\* appended to the list option ignorewarnings
ConfigAppendBody(t) ==
    /\ pc[t] = "simple" /\ op[t] = "config_append"
    /\ \E key \in {"ignorewarnings", "nokey"} :
          IF key \in ConfigKeys
          THEN /\ config' = [config EXCEPT !.ignorewarnings = @ \cup {"slow"}]
               /\ Leave(t, "ret")
          ELSE /\ config' = config
               /\ Leave(t, "raise")
    /\ UNCHANGED <<op, arg, tmp, number, incoming, in_progress, checked,
                 active, sinks, ret, num, num_waited, hist>>

\* (finish() doing the wait of the abort loop itself, inside the lock)
FinishBodySleeps(t) ==
    /\ pc[t] = "simple" /\ op[t] = "finish"
    /\ pc' = [pc EXCEPT ![t] = "sleep"]
    /\ UNCHANGED <<lock, op, arg, out, k, tmp, number, config, incoming,
                 in_progress, checked, active, sinks, ret, num,
                 num_waited, hist>>

\* Consumer.finish: "self._threader.finish()"
FinishBody(t) ==
    /\ pc[t] = "simple" /\ op[t] = "finish"
    /\ Leave(t, "ret")
    /\ UNCHANGED <<op, arg, tmp, number, config, incoming, in_progress,
                 checked, active, sinks, ret, num, num_waited,
                 hist>>

\* Consumer.no_more_threads: "return self._threader.finished()"
NoMoreThreadsBody(t) ==
    /\ pc[t] = "simple" /\ op[t] = "no_more_threads"
    /\ ret' = ThreaderFinished
    /\ Leave(t, "ret")
    /\ UNCHANGED <<op, arg, tmp, number, config, incoming, in_progress,
                 checked, active, sinks, num, num_waited, hist>>

\* Consumer.active_threads: "return self._threader.active_threads()"
ActiveThreadsBody(t) ==
    /\ pc[t] = "simple" /\ op[t] = "active_threads"
    /\ num' = ThreaderActive
    /\ Leave(t, "ret")
    /\ UNCHANGED <<op, arg, tmp, number, config, incoming, in_progress,
                 checked, active, sinks, ret, num_waited, hist>>

\* Consumer.get_country_name: "gi = self._config['geoip']"
GetCountryNameBody(t) ==
    /\ pc[t] = "simple" /\ op[t] = "get_country_name"
    /\ Leave(t, "ret")
    /\ UNCHANGED <<op, arg, tmp, number, config, incoming, in_progress,
                 checked, active, sinks, ret, num, num_waited,
                 hist>>

\* ---------------------------------------------------------- the driver
\* The driver thread between two calls: it appends the next discovered
\* item, pulls a queued item for dispatch, logs an item directly, or calls
\* one of the query methods.
DriverAppend ==
    /\ pc[Driver] = "idle"
    /\ hist.appended < NItems
    /\ Call(Driver, "append_url", hist.appended + 1)
    /\ hist' = [hist EXCEPT !.appended = @ + 1]
    /\ UNCHANGED <<lock, k, tmp, number, config, incoming, in_progress,
                 checked, active, sinks, ret, num, num_waited>>

DriverGet ==
    /\ pc[Driver] = "idle"
    /\ incoming # << >>
    /\ Call(Driver, "incoming_get", NoItem)
    /\ UNCHANGED <<lock, k, tmp, number, config, incoming, in_progress,
                 checked, active, sinks, ret, num, num_waited,
                 hist>>

DriverMethods ==
    {"finished", "print_status", "config", "config_append", "finish",
     "no_more_threads", "active_threads", "get_country_name"}

DriverQuery ==
    /\ pc[Driver] = "idle"
    /\ \E o \in DriverMethods : Call(Driver, o, NoItem)
    /\ UNCHANGED <<lock, k, tmp, number, config, incoming, in_progress,
                 checked, active, sinks, ret, num, num_waited,
                 hist>>

\* Consumer.log_url(url_data) called directly, once, for the last item
DriverLogUrl ==
    /\ pc[Driver] = "idle"
    /\ hist.nLogUrl = 0
    /\ Call(Driver, "log_url", NItems)
    /\ hist' = [hist EXCEPT !.nLogUrl = @ + 1]
    /\ UNCHANGED <<lock, k, tmp, number, config, incoming, in_progress,
                 checked, active, sinks, ret, num, num_waited>>

\* Consumer.check_url: self._threader.start_thread(url_data.check, ...);
\* not synchronized.  The Threader runs the check in its first free thread.
CheckUrl ==
    /\ pc[Driver] = "ret" /\ op[Driver] = "incoming_get"
    /\ arg[Driver] # NoItem
    /\ \E w \in Workers :
          /\ pc[w] = "off"
          /\ \A v \in Workers : pc[v] = "off" => w <= v
          /\ pc' = [pc EXCEPT ![Driver] = "idle", ![w] = "check"]
          /\ arg' = [arg EXCEPT ![w] = arg[Driver], ![Driver] = NoItem]
          /\ active' = active \cup {w}
    /\ op' = [op EXCEPT ![Driver] = "none"]
    /\ out' = [out EXCEPT ![Driver] = "none"]
    /\ hist' = [hist EXCEPT !.dispatched = @ \cup {arg[Driver]}]
    /\ UNCHANGED <<lock, k, tmp, number, config, incoming, in_progress,
                 checked, sinks, ret, num, num_waited>>

\* the driver's loop "while not consumer.finished()": a true result ends
\* the run with end_log_output(); any other call returns to the loop
DriverReturn ==
    /\ pc[Driver] = "ret"
    /\ op[Driver] # "incoming_get" \/ arg[Driver] = NoItem
    /\ IF op[Driver] = "finished" /\ ret
       THEN Call(Driver, "end_log_output", NoItem)
       ELSE /\ pc' = [pc EXCEPT ![Driver] =
                        IF op[Driver] = "end_log_output" THEN "stopped" ELSE "idle"]
            /\ op' = [op EXCEPT ![Driver] = "none"]
            /\ arg' = [arg EXCEPT ![Driver] = NoItem]
            /\ out' = [out EXCEPT ![Driver] = "none"]
    /\ ret' = FALSE
    /\ num' = 0
    /\ hist' = [hist EXCEPT !.logs[Driver] = 0]
    /\ UNCHANGED <<lock, k, tmp, number, config, incoming, in_progress,
                 checked, active, sinks, num_waited>>

\* --------------------------------------------------------- the workers
\* url_data.check() ends by calling Consumer.checked() or, when the check
\* was abandoned, Consumer.interrupted()
WorkerChecked(w) ==
    /\ pc[w] = "check"
    /\ Call(w, "checked", arg[w])
    /\ hist' = [hist EXCEPT !.nChecked = @ + 1]
    /\ UNCHANGED <<lock, k, tmp, number, config, incoming, in_progress,
                 checked, active, sinks, ret, num, num_waited>>

WorkerInterrupted(w) ==
    /\ pc[w] = "check"
    /\ Call(w, "interrupted", arg[w])
    /\ UNCHANGED <<lock, k, tmp, number, config, incoming, in_progress,
                 checked, active, sinks, ret, num, num_waited,
                 hist>>

\* the thread function has returned (or died with the error of checked()):
\* the Threader no longer counts the thread
WorkerExit(w) ==
    /\ pc[w] = "ret"
    /\ pc' = [pc EXCEPT ![w] = "off"]
    /\ op' = [op EXCEPT ![w] = "none"]
    /\ arg' = [arg EXCEPT ![w] = NoItem]
    /\ out' = [out EXCEPT ![w] = "none"]
    /\ active' = active \ {w}
    /\ hist' = [hist EXCEPT !.logs[w] = 0, !.calls[w] = << >>]
    /\ UNCHANGED <<lock, k, tmp, number, config, incoming, in_progress,
                 checked, sinks, ret, num, num_waited>>

\* a step inside a method, by any thread
MethodStep(t) ==
    \/ Enter(t)
    \/ AppendAdd(t)
    \/ LogLoad(t)
    \/ LogStore(t)
    \/ LogSink(t)
    \/ CheckedCache(t)
    \/ IntRemove(t)
    \/ FinPool(t)
    \/ FinLen(t)
    \/ PsActive(t)
    \/ PsLen(t)
    \/ OutSink(t)
    \/ GetPop(t)
    \/ ConfigBody(t)
    \/ ConfigAppendBody(t)
    \/ FinishBody(t)
    \/ NoMoreThreadsBody(t)
    \/ ActiveThreadsBody(t)
    \/ GetCountryNameBody(t)

DriverStep ==
    \/ DriverAppend
    \/ DriverGet
    \/ DriverQuery
    \/ DriverLogUrl
    \/ CheckUrl
    \/ DriverReturn
    \/ MethodStep(Driver)

WorkerStep(w) ==
    \/ WorkerChecked(w)
    \/ WorkerInterrupted(w)
    \/ WorkerExit(w)
    \/ MethodStep(w)

Next == DriverStep \/ \E w \in Workers : WorkerStep(w)

Spec == Init /\ [][Next]_vars

\* The scheduler runs every thread that is inside a method.
FairMethods == \A t \in Threads : WF_vars(MethodStep(t))
SpecFair == Spec /\ FairMethods

\* --------------------------------------------------------------- abort
\* The item a checker thread holds when the abort begins.
WorkItem(w) == IF w = 1 THEN 1 ELSE w + 1

\* abort() is called while some of the first NAbortWorkers checker threads
\* are still checking: the
\* loggers have been started, the items of the running threads are in
\* progress and nothing is queued.
InitAbort ==
    \E A \in SUBSET (1..NAbortWorkers) :
        /\ lock = NoThread
        /\ pc = [t \in Threads |->
                   IF t = Driver THEN "abort" ELSE IF t \in A THEN "check" ELSE "off"]
        /\ op = [t \in Threads |-> "none"]
        /\ arg = [t \in Threads |-> IF t \in A THEN WorkItem(t) ELSE NoItem]
        /\ out = [t \in Threads |-> "none"]
        /\ k = [t \in Threads |-> 0]
        /\ tmp = [t \in Threads |-> 0]
        /\ number = 0
        /\ config = Config0
        /\ incoming = << >>
        /\ in_progress = {WorkItem(w) : w \in A}
        /\ checked = {}
        /\ active = A
        /\ sinks = [s \in Sinks |-> <<StartEv>>]
        /\ ret = FALSE
        /\ num = 0
        /\ num_waited = -1
        /\ hist = [Hist0 EXCEPT !.appended = NItems,
                                !.dispatched = {WorkItem(w) : w \in A}]

\* Consumer.abort: "self.num_waited = 0", then "while True: try:"
AbortInit ==
    /\ pc[Driver] = "abort"
    /\ num_waited' = 0
    /\ pc' = [pc EXCEPT ![Driver] = "_abort"]
    /\ UNCHANGED <<lock, op, arg, out, k, tmp, number, config, incoming,
                 in_progress, checked, active, sinks, ret, num,
                 hist>>

\* Consumer._abort: "while not self.no_more_threads():"
AbortLoop ==
    /\ pc[Driver] = "_abort"
    /\ Call(Driver, "no_more_threads", NoItem)
    /\ UNCHANGED <<lock, k, tmp, number, config, incoming, in_progress,
                 checked, active, sinks, ret, num, num_waited,
                 hist>>

\* (">=" in place of ">")
TimedOutAtLimit == num_waited >= WAIT_LIMIT
\* (a bound of 3 in place of 30)
TimedOutEarly == num_waited > 3

\* the wait bound of the loop: "if self.num_waited > 30"
TimedOut == num_waited > WAIT_LIMIT

\* Consumer._abort, with the result of no_more_threads(): leave the loop
\* and end the output; or report the timeout and end the output; or ask
\* for the number of active threads
AbortTest ==
    /\ pc[Driver] = "ret" /\ op[Driver] = "no_more_threads"
    /\ IF ret
       THEN /\ Call(Driver, "end_log_output", NoItem)
            /\ hist' = hist
       ELSE IF TimedOut
            THEN /\ Call(Driver, "end_log_output", NoItem)
                 /\ hist' = [hist EXCEPT !.loops = @ + 1, !.fatals = @ + 1]
            ELSE /\ Call(Driver, "active_threads", NoItem)
                 /\ hist' = [hist EXCEPT !.loops = @ + 1]
    /\ ret' = FALSE
    /\ UNCHANGED <<lock, k, tmp, number, config, incoming, in_progress,
                 checked, active, sinks, num, num_waited>>

\* Consumer._abort: linkcheck.log.warn(...), then "self.finish()"
AbortWarn ==
    /\ pc[Driver] = "ret" /\ op[Driver] = "active_threads"
    /\ Call(Driver, "finish", NoItem)
    /\ hist' = [hist EXCEPT !.warns = @ + 1, !.finishes = @ + 1]
    /\ UNCHANGED <<lock, k, tmp, number, config, incoming, in_progress,
                 checked, active, sinks, ret, num, num_waited>>

\* Consumer._abort: "self.num_waited += 1"
AbortWaited ==
    /\ pc[Driver] = "ret" /\ op[Driver] = "finish"
    /\ num_waited' = num_waited + 1
    /\ pc' = [pc EXCEPT ![Driver] = "sleep"]
    /\ op' = [op EXCEPT ![Driver] = "none"]
    /\ out' = [out EXCEPT ![Driver] = "none"]
    /\ num' = 0
    /\ UNCHANGED <<lock, arg, k, tmp, number, config, incoming,
                 in_progress, checked, active, sinks, ret, hist>>

\* Consumer._abort: "time.sleep(2)", then the loop condition again
AbortSleep ==
    /\ pc[Driver] = "sleep"
    /\ pc' = [pc EXCEPT ![Driver] = "_abort"]
    /\ hist' = [hist EXCEPT !.sleeps = @ + 1]
    /\ UNCHANGED <<lock, op, arg, out, k, tmp, number, config, incoming,
                 in_progress, checked, active, sinks, ret, num,
                 num_waited>>

\* end_log_output() has returned: _abort returns, abort leaves its loop
\* with "break"
AbortReturn ==
    /\ pc[Driver] = "ret" /\ op[Driver] = "end_log_output"
    /\ pc' = [pc EXCEPT ![Driver] = "returned"]
    /\ op' = [op EXCEPT ![Driver] = "none"]
    /\ out' = [out EXCEPT ![Driver] = "none"]
    /\ hist' = [hist EXCEPT !.ends = @ + 1]
    /\ UNCHANGED <<lock, arg, k, tmp, number, config, incoming,
                 in_progress, checked, active, sinks, ret, num,
                 num_waited>>

\* (no except clause: the exception leaves abort)
OnCancelEscape == "escaped"

\* (the retry starting abort() over, "self.num_waited = 0" included)
OnCancelRestart == "abort"

\* "except (KeyboardInterrupt, SystemExit): pass", then "while True:"
\* calls _abort again
OnCancel == "_abort"

\* A KeyboardInterrupt or SystemExit raised in the driver while _abort
\* runs: a synchronized method it is in releases the lock on the way out,
\* "except (KeyboardInterrupt, SystemExit): pass" swallows it and the
\* loop of abort calls _abort again.
Cancel ==
    /\ pc[Driver] \notin {"abort", "returned", "escaped"}
    /\ hist.cancels < MaxCancel
    /\ lock' = IF lock = Driver THEN NoThread ELSE lock
    /\ pc' = [pc EXCEPT ![Driver] = OnCancel]
    /\ op' = [op EXCEPT ![Driver] = "none"]
    /\ out' = [out EXCEPT ![Driver] = "none"]
    /\ k' = [k EXCEPT ![Driver] = 0]
    /\ tmp' = [tmp EXCEPT ![Driver] = 0]
    /\ ret' = FALSE
    /\ num' = 0
    /\ hist' = [hist EXCEPT !.cancels = @ + 1]
    /\ UNCHANGED <<arg, number, config, incoming, in_progress, checked,
                 active, sinks, num_waited>>

\* the steps of the methods called during an abort
AbortMethodStep(t) ==
    \/ Enter(t)
    \/ LogLoad(t)
    \/ LogStore(t)
    \/ LogSink(t)
    \/ CheckedCache(t)
    \/ IntRemove(t)
    \/ OutSink(t)
    \/ FinishBody(t)
    \/ NoMoreThreadsBody(t)
    \/ ActiveThreadsBody(t)

AbortStep ==
    \/ AbortInit
    \/ AbortLoop
    \/ AbortTest
    \/ AbortWarn
    \/ AbortWaited
    \/ AbortSleep
    \/ AbortReturn
    \/ Cancel
    \/ AbortMethodStep(Driver)

\* a checker thread completes its check and calls back
WorkerDone(w) ==
    \/ WorkerChecked(w)
    \/ WorkerInterrupted(w)

WorkerRun(w) ==
    \/ WorkerExit(w)
    \/ AbortMethodStep(w)

NextAbort == AbortStep \/ \E w \in Workers : (WorkerDone(w) \/ WorkerRun(w))

SpecAbort == InitAbort /\ [][NextAbort]_vars

\* The scheduler runs every thread that can take a step; a check itself
\* (the network) need never complete.
FairAbort ==
    /\ WF_vars(AbortStep)
    /\ \A w \in Workers : WF_vars(WorkerRun(w))

SpecAbortFair == SpecAbort /\ FairAbort


\* ------------------------------------------------------------- _log_url
\* _log_url on its own: one thread logs items under every configuration of
\* the options _log_url reads.
MaxLogged == 2
Tags == {"anchor", "slow"}

InitLog ==
    /\ lock = NoThread
    /\ pc = [t \in Threads |-> IF t = Driver THEN "idle" ELSE "off"]
    /\ op = [t \in Threads |-> "none"]
    /\ arg = [t \in Threads |-> NoItem]
    /\ out = [t \in Threads |-> "none"]
    /\ k = [t \in Threads |-> 0]
    /\ tmp = [t \in Threads |-> 0]
    /\ number = 0
    /\ config \in [verbose : BOOLEAN, warnings : BOOLEAN,
                   ignorewarnings : SUBSET Tags]
    /\ incoming = << >>
    /\ in_progress = {}
    /\ checked = {}
    /\ active = {}
    /\ sinks = [s \in Sinks |-> <<StartEv>>]
    /\ ret = FALSE
    /\ num = 0
    /\ num_waited = -1
    /\ hist = Hist0

\* Consumer.log_url(url_data) called for any item
LogUrlCall ==
    /\ pc[Driver] = "idle"
    /\ hist.nLogUrl < MaxLogged
    /\ \E i \in Items : Call(Driver, "log_url", i)
    /\ hist' = [hist EXCEPT !.nLogUrl = @ + 1]
    /\ UNCHANGED <<lock, k, tmp, number, config, incoming, in_progress,
                 checked, active, sinks, ret, num, num_waited>>

NextLog ==
    \/ LogUrlCall
    \/ Enter(Driver)
    \/ LogLoad(Driver)
    \/ LogStore(Driver)
    \/ LogSink(Driver)
    \/ DriverReturn

SpecLog == InitLog /\ [][NextLog]_vars

\* ------------------------------------------- checked() and interrupted()
\* The callbacks of the checker threads on their own: every thread holds
\* some item, which the cache may or may not have in progress, and calls
\* checked(), interrupted() or a Cache method through the proxy for it, up
\* to MaxAgain times more.
MaxAgain == 1

InitCalls ==
    /\ lock = NoThread
    /\ pc = [t \in Threads |-> IF t = Driver THEN "stopped" ELSE "check"]
    /\ op = [t \in Threads |-> "none"]
    /\ arg \in [Threads -> Items \cup {NoItem}]
    /\ \A t \in Threads : arg[t] = NoItem <=> t = Driver
    /\ out = [t \in Threads |-> "none"]
    /\ k = [t \in Threads |-> 0]
    /\ tmp = [t \in Threads |-> 0]
    /\ number = 0
    /\ config = Config0
    /\ incoming = << >>
    /\ in_progress \in SUBSET Items
    /\ checked = {}
    /\ active = Workers
    /\ sinks = [s \in Sinks |-> <<StartEv>>]
    /\ ret = FALSE
    /\ num = 0
    /\ num_waited = -1
    /\ hist = [Hist0 EXCEPT !.appended = NItems]

\* the thread calls back once more for the same item (hist.again: the
\* calls it has made before)
CallAgain(w) ==
    /\ pc[w] = "ret"
    /\ Len(hist.again[w]) < MaxAgain
    /\ pc' = [pc EXCEPT ![w] = "check"]
    /\ op' = [op EXCEPT ![w] = "none"]
    /\ out' = [out EXCEPT ![w] = "none"]
    /\ hist' = [hist EXCEPT !.again[w] = Append(@, op[w]), !.logs[w] = 0,
                            !.calls[w] = << >>]
    /\ UNCHANGED <<lock, arg, k, tmp, number, config, incoming,
                 in_progress, checked, active, sinks, ret, num,
                 num_waited>>

\* the thread calls consumer.in_progress_remove(url_data): a Cache method
\* reached through __getattr__
WorkerProxy(w) ==
    /\ pc[w] = "check"
    /\ Call(w, "in_progress_remove", arg[w])
    /\ UNCHANGED <<lock, k, tmp, number, config, incoming, in_progress,
                 checked, active, sinks, ret, num, num_waited,
                 hist>>

CallStep(w) ==
    \/ WorkerChecked(w)
    \/ WorkerInterrupted(w)
    \/ WorkerProxy(w)
    \/ CallAgain(w)
    \/ Enter(w)
    \/ LogLoad(w)
    \/ LogStore(w)
    \/ LogSink(w)
    \/ CheckedCache(w)
    \/ IntRemove(w)
    \/ ProxyRemove(w)

NextCalls == \E w \in Workers : CallStep(w)

SpecCalls == InitCalls /\ [][NextCalls]_vars
\* ==================================================== properties
\* the labels of the statements inside method bodies
BodyLabels ==
    {"append_add", "log_load", "log_store", "log_sink", "checked_cache",
     "int_remove", "fin_pool", "fin_len", "ps_active", "ps_len", "out_sink",
     "get_pop", "proxy_remove", "simple"}
InBody(t) == pc[t] \in BodyLabels
\* thread t takes the step
Steps(t) == pc'[t] # pc[t] \/ k'[t] # k[t]
\* the number of log events for item i a sink has received
LogEvents(s, i) ==
    Cardinality({n \in 1..Len(sinks[s]) :
                    sinks[s][n].type = "log" /\ sinks[s][n].item = i})
EndEvents(s) ==
    Cardinality({n \in 1..Len(sinks[s]) : sinks[s][n].type = "end"})
LastIsLogOf(s, i) ==
    /\ sinks[s] # << >>
    /\ sinks[s][Len(sinks[s])] = LogEv(i, DoPrint(i))
\* no thread is inside a Consumer method
Quiescent ==
    /\ pc[Driver] \in {"idle", "stopped"}
    /\ \A w \in Workers : pc[w] \in {"off", "check"}

\* ---------------------------------------------------------------- C1
\* C1: whenever a step of checked() changes the Cache (checked_add or
\* in_progress_remove), that call has already incremented the counter once
\* and delivered the item's log event to the primary logger and to every
\* file output.
C1_LogBeforeCache ==
    [][\A t \in Threads :
          (op[t] = "checked" /\ Steps(t)
             /\ <<checked', in_progress'>> # <<checked, in_progress>>)
          => /\ hist.logs[t] = 1
             /\ number >= 1
             /\ \A s \in Sinks : LastIsLogOf(s, arg[t])]_vars

\* a checked() call has returned after logging and checked_add
C1_Witness ==
    \E w \in Workers :
        /\ pc[w] = "ret" /\ op[w] = "checked" /\ out[w] = "ret"
        /\ Ident(arg[w]) \in checked
        /\ hist.logs[w] = 1

\* ---------------------------------------------------------------- C2
\* C2: when append_url returns, an item the Cache did not admit has been
\* logged exactly once by that call (one counter increment, one event on
\* every sink) and is not queued; an admitted item is queued and the call
\* logged nothing.  A rejected item is never queued, in progress or
\* dispatched.  An item appended while an item of the same identity is
\* queued is rejected.
C2_AppendDuplicate ==
    /\ (pc[Driver] = "ret" /\ op[Driver] = "append_url")
       => IF arg[Driver] \in hist.rejected
          THEN /\ hist.logs[Driver] = 1
               /\ \A s \in Sinks : LogEvents(s, arg[Driver]) = 1
               /\ arg[Driver] \notin RangeOf(incoming)
          ELSE /\ hist.logs[Driver] = 0
               /\ arg[Driver] \in RangeOf(incoming)
    /\ \A i \in hist.rejected :
          /\ i \notin RangeOf(incoming) \cup in_progress \cup hist.dispatched
          /\ \A s \in Sinks : LogEvents(s, i) <= 1
    /\ (pc[Driver] = "ret" /\ op[Driver] = "append_url"
          /\ \E j \in RangeOf(incoming) :
                j # arg[Driver] /\ Ident(j) = Ident(arg[Driver]))
       => arg[Driver] \in hist.rejected

\* item 2 was appended while item 1, of the same identity, was queued: it
\* has been logged and is not queued
C2_Witness ==
    /\ pc[Driver] = "ret" /\ op[Driver] = "append_url" /\ arg[Driver] = 2
    /\ 1 \in RangeOf(incoming)
    /\ 2 \in hist.rejected
    /\ hist.logs[Driver] = 1

\* ---------------------------------------------------------------- C3
\* a step that changes the counter adds 1 to it and is the store of
\* _log_url, taken by the thread that holds the lock
CounterStep ==
    number' # number
    => /\ number' = number + 1
       /\ \E t \in Threads :
             lock = t /\ pc[t] = "log_store" /\ pc'[t] = "log_sink"
       /\ hist'.nLog = hist.nLog + 1

\* C3 as stated: the counter changes only by +1, in _log_url, under the
\* lock, and when no call is running it equals the number of checked()
\* calls plus the number of rejected append_url() calls.
C3_Original ==
    /\ [][CounterStep]_vars
    /\ [](Quiescent => number = hist.nChecked + hist.nDup)

\* C3 amended: the counter changes only by +1, in _log_url, under the
\* lock, and when no call is running it equals the number of checked()
\* calls plus the number of rejected append_url() calls plus the number of
\* direct log_url() calls.
C3_Counter ==
    /\ [][CounterStep]_vars
    /\ [](Quiescent => number = hist.nChecked + hist.nDup + hist.nLogUrl)

\* all items were appended, log_url was called, two results were logged
C3_Witness ==
    /\ Quiescent
    /\ hist.nLogUrl = 1 /\ hist.nDup >= 1 /\ hist.nChecked >= 1
    /\ number = hist.nChecked + hist.nDup + 1

\* ---------------------------------------------------------------- C4
\* C4: a thread in finished() or print_status() queries the Threader and
\* the Cache without holding the global lock.
C4_QueriesBeforeLock ==
    \A t \in Threads :
        pc[t] \in {"fin_pool", "fin_len", "ps_active", "ps_len"} => lock # t

\* ---------------------------------------------------------------- C5
\* abort() has returned after reporting the timeout, with no cancellation
AbortTimedOut ==
    pc[Driver] = "returned" /\ hist.cancels = 0 /\ hist.fatals > 0
EndDelivered == \A s \in Sinks : EndEvents(s) >= 1

\* C5 as stated: against a pool that never reports finished the loop ends
\* after 31 iterations: 30 retries, then the timeout check, which reports
\* the timeout, ends the log output and returns.
C5_Original ==
    AbortTimedOut
    => /\ hist.loops = WAIT_LIMIT + 1
       /\ hist.warns = WAIT_LIMIT
       /\ hist.finishes = WAIT_LIMIT
       /\ hist.sleeps = WAIT_LIMIT
       /\ num_waited = WAIT_LIMIT
       /\ hist.fatals = 1
       /\ hist.ends = 1
       /\ \A s \in Sinks : EndEvents(s) = 1

\* C5 amended: against a pool that never reports finished the loop ends
\* after 32 iterations: 31 retries (each with the warning, finish(), the
\* increment and the sleep), then the timeout check, which reports the
\* timeout once, ends the log output once and returns.
C5_AbortTimeout ==
    AbortTimedOut
    => /\ hist.loops = WAIT_LIMIT + 2
       /\ hist.warns = WAIT_LIMIT + 1
       /\ hist.finishes = WAIT_LIMIT + 1
       /\ hist.sleeps = WAIT_LIMIT + 1
       /\ num_waited = WAIT_LIMIT + 1
       /\ hist.fatals = 1
       /\ hist.ends = 1
       /\ \A s \in Sinks : EndEvents(s) = 1

C5_Witness == AbortTimedOut /\ active # {} /\ EndDelivered

\* ---------------------------------------------------------------- C6
\* C6: when abort() returns without cancellation after the pool answered
\* "not finished" k < 31 times, it made exactly k retries (k warnings, k
\* finish() requests, k increments, k sleeps), reported no timeout and
\* ended the log output exactly once.
C6_AbortFinished ==
    (pc[Driver] = "returned" /\ hist.cancels = 0 /\ hist.loops < WAIT_LIMIT + 1)
    => /\ hist.fatals = 0
       /\ hist.warns = hist.loops
       /\ hist.finishes = hist.loops
       /\ hist.sleeps = hist.loops
       /\ num_waited = hist.loops
       /\ hist.ends = 1
       /\ \A s \in Sinks : EndEvents(s) = 1
       /\ active = {}

\* the pool finished after 5 retries
C6_Witness ==
    /\ pc[Driver] = "returned" /\ hist.cancels = 0
    /\ hist.loops = 5 /\ hist.finishes = 5 /\ hist.fatals = 0

\* the pool had finished at the first query: no finish() request
C6_WitnessZero ==
    /\ pc[Driver] = "returned" /\ hist.cancels = 0
    /\ hist.loops = 0 /\ hist.finishes = 0 /\ EndDelivered

\* ---------------------------------------------------------------- C7
AbortReturned ==
    pc[Driver] = "returned"
    => /\ lock # Driver
       /\ EndDelivered

\* C7: a cancellation raised while _abort runs never leaves abort(): the
\* abort that has begun returns, and when it has returned every sink has
\* received end_output and the driver does not hold the lock.
C7_CancelSwallowed ==
    /\ [](pc[Driver] # "escaped")
    /\ []AbortReturned
    /\ (pc[Driver] = "abort") ~> (pc[Driver] = "returned")

\* a cancellation hit end_log_output between two sinks: the primary
\* logger has received end_output twice
C7_Witness ==
    /\ pc[Driver] = "returned" /\ hist.cancels > 0
    /\ EndEvents(0) = 2
    /\ EndDelivered

\* ---------------------------------------------------------------- C8
\* C8: a thread is inside the body of a synchronized method exactly when it
\* holds the lock, so at most one thread is inside one; a thread that has
\* returned from or raised out of a method does not hold the lock.
C8_MutualExclusion ==
    /\ \A t \in Threads : InBody(t) <=> lock = t
    /\ \A t, u \in Threads : (InBody(t) /\ InBody(u)) => t = u
    /\ \A t \in Threads : pc[t] = "ret" => lock # t

\* config() has raised for a missing key, and a worker is inside checked()
C8_Witness ==
    /\ pc[Driver] = "ret" /\ op[Driver] = "config" /\ out[Driver] = "raise"
    /\ \E w \in Workers : InBody(w) /\ op[w] = "checked" /\ lock = w

\* ---------------------------------------------------------------- C9
\* the stream of a sink: start_output first and only first, nothing after
\* an end_output
WellFormed(q) ==
    /\ q # << >> => q[1].type = "start"
    /\ \A n \in 2..Len(q) : q[n].type # "start"
    /\ \A n \in 1..Len(q) : q[n].type = "end" => n = Len(q)

\* C9: every sink's stream is well formed in every run in which no
\* cancellation is raised, the run with a timed-out abort included.
C9_WellFormedStreams ==
    hist.cancels = 0 => \A s \in Sinks : WellFormed(sinks[s])

\* --------------------------------------------------------------- C10
\* the step with which finished() returns
FinishedReturns ==
    /\ op[Driver] = "finished"
    /\ pc[Driver] \in {"fin_pool", "fin_len"}
    /\ pc'[Driver] = "ret"

\* C10: finished() returns true exactly when the Threader has no active
\* thread and the incoming queue is empty, it does not raise, and a call
\* of finished() always returns.
C10_Finished ==
    /\ [][FinishedReturns
            => /\ ret' = (active = {} /\ Len(incoming) = 0)
               /\ out'[Driver] = "ret"]_vars
    /\ [](pc[Driver] = "ret" /\ op[Driver] = "finished" /\ ret
            => active = {} /\ incoming = << >>)
    /\ (pc[Driver] = "acquire" /\ op[Driver] = "finished")
          ~> (pc[Driver] = "ret" /\ op[Driver] = "finished")

\* finished() has returned false while a worker was inside checked()
C10_Witness ==
    /\ pc[Driver] = "ret" /\ op[Driver] = "finished" /\ ~ret
    /\ \E w \in Workers : op[w] = "checked" /\ pc[w] \in {"acquire", "log_load"}

\* finished() has returned true
C10_WitnessTrue ==
    /\ pc[Driver] = "ret" /\ op[Driver] = "finished" /\ ret
    /\ hist.nChecked > 0


\* --------------------------------------------------------------- C11
\* the log events a sink has received
LogsOf(s) == SelectSeq(sinks[s], LAMBDA e : e.type = "log")
\* the item has a warning tag outside the ignore set
TagNotIgnored(i) == RangeOf(Warnings(i)) \ config.ignorewarnings # {}

\* C11: every log event carries do_print = verbose or (not valid) or
\* (has_warnings and warnings), has_warnings being true exactly when a
\* warning tag of the item is not in ignorewarnings; a valid item with one
\* non-ignored warning, warnings on and verbose off has do_print true, and a
\* valid item without warnings and verbose off has do_print false.
C11_DoPrint ==
    \A s \in Sinks : \A n \in 1..Len(sinks[s]) :
        LET e == sinks[s][n] IN
        e.type = "log"
        => /\ e.do_print = (config.verbose \/ ~Valid(e.item)
                              \/ (TagNotIgnored(e.item) /\ config.warnings))
           /\ (e.item = 2 /\ "slow" \notin config.ignorewarnings
                 /\ config.warnings /\ ~config.verbose) => e.do_print
           /\ (e.item = 1 /\ ~config.verbose) => ~e.do_print

\* with the tag "slow" ignored, the valid item 2 was logged with do_print
\* false and then the invalid item 3 with do_print true
C11_Witness ==
    /\ ~config.verbose /\ config.warnings /\ config.ignorewarnings = {"slow"}
    /\ Len(LogsOf(0)) = 2
    /\ LogsOf(0)[1] = LogEv(2, FALSE)
    /\ LogsOf(0)[2] = LogEv(3, TRUE)

\* a valid item with a non-ignored warning was logged with do_print true
C11_WitnessWarning ==
    /\ ~config.verbose /\ config.warnings /\ config.ignorewarnings = {"anchor"}
    /\ \E n \in 1..Len(LogsOf(NFile)) : LogsOf(NFile)[n] = LogEv(2, TRUE)

\* --------------------------------------------------------------- C12
\* q is an initial part of r
IsPrefix(q, r) == Len(q) <= Len(r) /\ SubSeq(r, 1, Len(q)) = q

\* C12: each sink receives a logged item once, the primary logger first and
\* the file outputs after it in list order, with the same do_print: a sink's
\* log events are those of the sink before it, less at most the item being
\* fanned out, and when no call is running every sink holds one event per
\* call of _log_url, do_print true or false.
C12_FanOut ==
    /\ \A s \in 1..NFile :
          /\ IsPrefix(LogsOf(s), LogsOf(s - 1))
          /\ Len(LogsOf(s - 1)) - Len(LogsOf(s)) <= 1
          /\ Len(LogsOf(s - 1)) # Len(LogsOf(s))
               => pc[Driver] = "log_sink" /\ k[Driver] = s
    /\ pc[Driver] \in {"idle", "ret"}
         => \A s \in Sinks : /\ Len(LogsOf(s)) = hist.nLog
                              /\ LogsOf(s) = LogsOf(0)

\* an item with do_print false and one with do_print true have reached the
\* last file output
C12_Witness ==
    /\ pc[Driver] = "idle"
    /\ Len(LogsOf(NFile)) = 2
    /\ ~LogsOf(NFile)[1].do_print
    /\ LogsOf(NFile)[2].do_print
    /\ LogsOf(0) = LogsOf(NFile)

\* --------------------------------------------------------------- C13
\* the wait counter never decreases, and a cancellation leaves it as it is
CounterKept ==
    /\ num_waited' >= num_waited
    /\ hist'.cancels # hist.cancels => num_waited' = num_waited

\* C13 as stated: the wait counter is not reset or decreased by a swallowed
\* cancellation, the retry iterations (those that reach finish()) number at
\* most the timeout bound, 30, plus the cancellations raised, and abort()
\* returns.
C13_Original ==
    /\ [][CounterKept]_vars
    /\ [](hist.finishes <= WAIT_LIMIT + hist.cancels)
    /\ (pc[Driver] = "abort") ~> (pc[Driver] = "returned")

\* C13 amended: the wait counter is not reset or decreased by a swallowed
\* cancellation, it never exceeds 31, the retry iterations (those that
\* reach finish()) number at most 31 plus the cancellations raised, and
\* abort() returns even when the pool never finishes.
C13_CounterKept ==
    /\ [][CounterKept]_vars
    /\ [](num_waited <= WAIT_LIMIT + 1)
    /\ [](hist.finishes <= WAIT_LIMIT + 1 + hist.cancels)
    /\ [](hist.sleeps <= WAIT_LIMIT + 1)
    /\ (pc[Driver] = "abort") ~> (pc[Driver] = "returned")

\* abort() has timed out on a pool that did not finish, after cancellations
\* that each cost one retry iteration
C13_Witness ==
    /\ pc[Driver] = "returned" /\ active # {}
    /\ hist.cancels = MaxCancel
    /\ hist.finishes = WAIT_LIMIT + 1 + MaxCancel
    /\ num_waited = WAIT_LIMIT + 1

\* --------------------------------------------------------------- C14
\* the item takes the checked_add path of checked()
AddPath(i) == Caching(i) /\ ~Cached(i)

\* C14: checked(item) calls the cache once, after the log: no cache call
\* up to and including the log, and when it has returned or raised its
\* cache calls are checked_add alone for a caching, non-cached item and the
\* strict in_progress_remove alone for any other item.
C14_OneCacheCall ==
    \A w \in Workers :
        op[w] = "checked"
        => /\ pc[w] \in {"acquire", "log_load", "log_store", "log_sink",
                          "checked_cache"} => hist.calls[w] = << >>
           /\ pc[w] = "checked_cache" => hist.logs[w] = 1
           /\ pc[w] = "ret"
                => /\ hist.logs[w] = 1
                   /\ hist.calls[w] = IF AddPath(arg[w])
                                      THEN <<"checked_add">>
                                      ELSE <<"in_progress_remove">>

\* one checked() has ended in checked_add and another in the removal,
\* for the cached item 3
C14_Witness ==
    \E v, w \in Workers :
        /\ pc[v] = "ret" /\ op[v] = "checked" /\ arg[v] = 1
        /\ hist.calls[v] = <<"checked_add">> /\ Ident(1) \in checked
        /\ pc[w] = "ret" /\ op[w] = "checked" /\ arg[w] = 3
        /\ hist.calls[w] = <<"in_progress_remove">> /\ out[w] = "ret"

\* --------------------------------------------------------------- C15
\* a step of thread t inside interrupted()
IntStep(t) ==
    /\ op[t] = "interrupted"
    /\ pc[t] \in {"acquire", "int_remove"}
    /\ pc'[t] # pc[t]

\* what a step of interrupted() may change
IntFrame(t) ==
    /\ number' = number /\ sinks' = sinks
    /\ incoming' = incoming /\ checked' = checked
    /\ hist'.nLog = hist.nLog
    /\ in_progress' = IF pc[t] = "int_remove" THEN in_progress \ {arg[t]}
                      ELSE in_progress
    /\ (pc[t] = "int_remove" /\ arg[t] \notin in_progress)
          => in_progress' = in_progress
    /\ pc[t] = "int_remove" => out'[t] = "ret" /\ lock' = NoThread

\* C15: interrupted(item) calls the tolerant in_progress_remove and nothing
\* else: no step of it changes the counter, a sink, the incoming queue or
\* the checked cache; it removes the item from the in-progress set, and for
\* an item that is not in progress (a second call included) it changes
\* nothing and returns without error.
C15_Interrupted ==
    /\ [][\A t \in Threads : IntStep(t) => IntFrame(t)]_vars
    /\ [](\A t \in Threads :
            (pc[t] = "ret" /\ op[t] = "interrupted")
            => /\ out[t] = "ret"
               /\ lock # t
               /\ hist.logs[t] = 0
               /\ hist.calls[t] = <<"in_progress_remove_ignore_missing">>
               /\ arg[t] \notin in_progress)

\* a thread has returned from its second interrupted() for the same item,
\* with nothing logged
C15_Witness ==
    \E w \in Workers :
        /\ pc[w] = "ret" /\ op[w] = "interrupted" /\ out[w] = "ret"
        /\ hist.again[w] = <<"interrupted">>
        /\ arg[w] \notin in_progress
        /\ number = 0

\* --------------------------------------------------------------- C16
\* thread t takes the removal of checked() for an item not in progress
MissingRemoval(t) ==
    /\ op[t] = "checked"
    /\ pc[t] = "checked_cache" /\ pc'[t] # pc[t]
    /\ ~AddPath(arg[t])
    /\ arg[t] \notin in_progress

\* C16: the removal of checked() for an item that is not in progress
\* raises out of checked(), the lock is released, and the log stays: the
\* counter and the sinks keep the increment and the events of the call.
C16_MissingEntry ==
    /\ [][\A t \in Threads :
            MissingRemoval(t)
            => /\ pc'[t] = "ret" /\ out'[t] = "raise"
               /\ lock = t /\ lock' = NoThread
               /\ number' = number /\ sinks' = sinks]_vars
    /\ [](\A t \in Threads :
            (pc[t] = "ret" /\ op[t] = "checked" /\ out[t] = "raise")
            => /\ lock # t
               /\ ~AddPath(arg[t])
               /\ hist.logs[t] = 1
               /\ number = hist.nLog
               /\ \A s \in Sinks : LogEvents(s, arg[t]) >= 1)

\* checked() has raised for item 2, which was never in progress, after
\* logging it to every sink
C16_Witness ==
    \E w \in Workers :
        /\ pc[w] = "ret" /\ op[w] = "checked" /\ out[w] = "raise"
        /\ arg[w] = 2 /\ lock = NoThread
        /\ number = 1
        /\ \A s \in Sinks : LogsOf(s) = <<LogEv(2, DoPrint(2))>>

\* --------------------------------------------------------------- C17
\* C17: a Cache method called through __getattr__ runs with the lock held
\* by its caller, so no other thread is inside a synchronized body
\* meanwhile, and when it has returned or raised its caller does not hold
\* the lock.
C17_ProxyLocked ==
    \A t \in Threads :
        op[t] \in ProxyMethods
        => /\ pc[t] \in {"get_pop", "proxy_remove"}
                => /\ lock = t
                   /\ \A u \in Threads \ {t} : ~InBody(u)
           /\ pc[t] = "ret" => lock # t

\* a proxied Cache method has raised and left the lock to a thread that is
\* now inside checked()
C17_Witness ==
    \E v, w \in Workers :
        /\ pc[v] = "ret" /\ op[v] = "in_progress_remove" /\ out[v] = "raise"
        /\ InBody(w) /\ op[w] = "checked" /\ lock = w

\* a thread is inside a proxied Cache method while another waits for the
\* lock in interrupted()
C17_WitnessWait ==
    \E v, w \in Workers :
        /\ pc[v] = "proxy_remove" /\ lock = v
        /\ pc[w] = "acquire" /\ op[w] = "interrupted"

\* --------------------------------------------------------------- C18
\* C18: while the aborting thread sleeps in the abort loop it does not hold
\* the lock, nor does it between the calls the loop makes: the lock is
\* free or held by a checker thread.
C18_SleepUnlocked ==
    /\ pc[Driver] = "sleep" => lock \in Workers \cup {NoThread}
    /\ pc[Driver] \in {"abort", "_abort", "ret", "returned"} => lock # Driver

\* the aborting thread sleeps while a checker thread is inside checked(),
\* holding the lock
C18_Witness ==
    /\ pc[Driver] = "sleep"
    /\ \E w \in Workers : lock = w /\ op[w] = "checked" /\ pc[w] = "log_sink"

\* --------------------------------------------------------------- C19
\* C19: a thread that requests the lock does not hold it, and a call of a
\* synchronized method is never made from inside a synchronized body.
C19_NoSelfDeadlock ==
    /\ [](\A t \in Threads : pc[t] = "acquire" => lock # t)
    /\ [][\A t \in Threads :
            (pc'[t] = "acquire" /\ pc[t] # "acquire")
            => ~InBody(t) /\ lock # t /\ lock' # t]_vars

\* append_url is logging a rejected item through _log_url, inside its own
\* critical section, while a checker thread waits for the lock
C19_Witness ==
    /\ op[Driver] = "append_url" /\ pc[Driver] = "log_sink" /\ lock = Driver
    /\ \E w \in Workers : pc[w] = "acquire" /\ op[w] = "checked"

\* --------------------------------------------------------------- C20
\* the items of the log events a sink has received, in order
ItemsOf(s) == [n \in 1..Len(LogsOf(s)) |-> LogsOf(s)[n].item]
\* thread t is in a logging call, between its entry and its last log event
Logging(t) ==
    lock = t /\ pc[t] \in {"append_add", "log_load", "log_store", "log_sink"}

\* C20: every sink receives the logged items in the order in which their
\* calls acquired the lock: the items of a sink are those of the logging
\* calls in order of entry, less at most the item of the one call that is
\* logging, and all of them when no call is logging.
C20_FanOutAtomic ==
    \A s \in Sinks :
        /\ IsPrefix(ItemsOf(s), hist.acq)
        /\ Len(hist.acq) - Len(ItemsOf(s)) <= 1
        /\ Len(hist.acq) # Len(ItemsOf(s))
             => \E t \in Threads :
                   /\ Logging(t)
                   /\ arg[t] = hist.acq[Len(hist.acq)]
                   /\ pc[t] = "log_sink" => k[t] <= s
        /\ (\A t \in Threads : pc[t] \notin BodyLabels)
             => ItemsOf(s) = hist.acq

\* item 1 was dispatched to thread 1 before item 3 to thread 2, thread 2
\* completed first, and every sink has item 3 before item 1 (after item 2,
\* which append_url rejected and logged)
C20_Witness ==
    /\ hist.nLogUrl = 0
    /\ arg[1] = 1 /\ arg[2] = 3
    /\ \A w \in {1, 2} : pc[w] = "ret" /\ op[w] = "checked"
    /\ \A s \in Sinks : ItemsOf(s) = <<2, 3, 1>>
====
